---- MODULE Spec2Model ----
(***************************************************************************)
(* Bravo Restaurant bill generator (project2.py): the cart, the coupon,    *)
(* the pricing arithmetic and the bill record, as a state machine over     *)
(* st.session_state, the wall clock and the bills/ directory.              *)
(*                                                                         *)
(* One action is one user interaction: the script run in which the widget  *)
(* fires, and the re-run that st.rerun() starts, up to the end of the      *)
(* script.  A script run has effects of its own (lines 554, 635, 665), so  *)
(* they are part of every action (ScriptRun).                              *)
(*                                                                         *)
(* Money: Python floats are modelled as fixed-point integers, 1000 units   *)
(* to the rupee.  With integer menu prices, a 10% coupon and 18% GST every *)
(* amount is a whole number of units, so the arithmetic is exact; binary   *)
(* floating-point rounding error is outside the model.                     *)
(*                                                                         *)
(* A Python variable that holds None or a value is None or Some(value).    *)
(* A str the code takes apart (coupon text) is a tuple of characters.      *)
(***************************************************************************)
EXTENDS Integers, Sequences, FiniteSets, TLC

VARIABLES
    cart,             \* st.session_state.cart: lines in insertion order
    bill_generated,   \* st.session_state.bill_generated
    applied_coupon,   \* st.session_state.applied_coupon
    discount_amount,  \* st.session_state.discount_amount (fixed-point)
    payment_method,   \* st.session_state.payment_method
    customer_name,    \* st.session_state.customer_name
    bill_number,      \* st.session_state.bill_number
    payment_radio,    \* st.session_state["payment_radio"], the radio's value
    now,              \* datetime.now(), in clock ticks
    bills,            \* the files of BILLS_DIR: bill number -> record
    events            \* user interactions and clock ticks so far

vars == <<cart, bill_generated, applied_coupon, discount_amount, payment_method,
          customer_name, bill_number, payment_radio, now, bills, events>>

(***************************************************************************)
(* Bounds of the exploration.                                              *)
(***************************************************************************)
TicksPerSecond == 2
MaxClock == 2
MaxLineQty == 6
MaxQtyInput == 3
MaxEvents == 5
WideLineQty == 25

(***************************************************************************)
(* Program constants.                                                      *)
(***************************************************************************)
GST_RATE == 18       \* percent: GST_RATE = 0.18
MAX_QTY == 20        \* st.number_input(..., min_value=1, max_value=20)

None == {}
Some(x) == {x}
The(o) == CHOOSE x \in o : TRUE

Min(a, b) == IF a <= b THEN a ELSE b
Max(a, b) == IF a >= b THEN a ELSE b

\* float(n) of a whole number of rupees, in fixed-point units
Float(n) == n * 1000

PAYMENT_METHODS == <<"Cash", "Card (Credit/Debit)", "UPI", "Net Banking">>

\* The part of MENU the exploration orders from (categories flattened: item
\* names are unique across the categories).
MENU == [i \in {"Tea", "Veg Fried Rice"} |->
            IF i = "Tea" THEN 25 ELSE 150]

(***************************************************************************)
(* Coupon text.                                                            *)
(***************************************************************************)
LowerCase == <<"a", "b", "c", "d", "e", "l", "m", "o", "r", "v", "w", "x">>
UpperCase == <<"A", "B", "C", "D", "E", "L", "M", "O", "R", "V", "W", "X">>

\* str.upper() on one character
UpperChar(c) ==
    IF \E k \in 1..Len(LowerCase) : LowerCase[k] = c
    THEN UpperCase[CHOOSE k \in 1..Len(LowerCase) : LowerCase[k] = c]
    ELSE c

upper(s) == [k \in 1..Len(s) |-> UpperChar(s[k])]

RECURSIVE lstrip(_)
lstrip(s) == IF s # <<>> /\ Head(s) = " " THEN lstrip(Tail(s)) ELSE s

RECURSIVE rstrip(_)
rstrip(s) ==
    IF s # <<>> /\ s[Len(s)] = " " THEN rstrip(SubSeq(s, 1, Len(s) - 1)) ELSE s

\* str.strip()
strip(s) == rstrip(lstrip(s))

BRAVO10 == <<"B", "R", "A", "V", "O", "1", "0">>
WELCOME50 == <<"W", "E", "L", "C", "O", "M", "E", "5", "0">>
BRAVO100 == <<"B", "R", "A", "V", "O", "1", "0", "0">>

COUPONS ==
    [c \in {BRAVO10, WELCOME50, BRAVO100} |->
        IF c = BRAVO10 THEN [type |-> "percent", value |-> 10]
        ELSE IF c = WELCOME50 THEN [type |-> "flat", value |-> 50]
        ELSE [type |-> "flat", value |-> 100]]

\* What the user types into the coupon box.
CouponInputs ==
    { <<>>,
      <<" ", " ">>,
      BRAVO10,
      <<" ", "b", "r", "a", "v", "o", "1", "0", " ">>,
      WELCOME50,
      <<"w", "e", "l", "c", "o", "m", "e", "5", "0">>,
      BRAVO100,
      <<"B", "r", "a", "v", "o", "1", "0", "0", " ">>,
      <<"B", "R", "A", "V", "O", "1">>,
      <<"B", "R", "A", "V", "O", " ", "1", "0">> }

(***************************************************************************)
(* Cart Store.                                                             *)
(***************************************************************************)
InCart(c, item) == \E k \in 1..Len(c) : c[k].name = item

LineOf(c, item) == c[CHOOSE k \in 1..Len(c) : c[k].name = item]

QtyOf(c, item) == IF InCart(c, item) THEN LineOf(c, item).qty ELSE 0

\* add_to_cart with "=" for "+=": the quantity of a line is overwritten
add_to_cart_overwrite(c, item, price, qty) ==
    IF InCart(c, item)
    THEN [k \in 1..Len(c) |->
            IF c[k].name = item THEN [c[k] EXCEPT !.qty = qty] ELSE c[k]]
    ELSE Append(c, [name |-> item, price |-> price, qty |-> qty])

\* add_to_cart, on the cart
add_to_cart(c, item, price, qty) ==
    IF InCart(c, item)
    THEN [k \in 1..Len(c) |->
            IF c[k].name = item THEN [c[k] EXCEPT !.qty = @ + qty] ELSE c[k]]
    ELSE Append(c, [name |-> item, price |-> price, qty |-> qty])

\* remove_item taking one unit off the line instead of deleting the line
remove_item_one_unit(c, item) ==
    SelectSeq([k \in 1..Len(c) |->
                  IF c[k].name = item THEN [c[k] EXCEPT !.qty = @ - 1] ELSE c[k]],
              LAMBDA l : l.qty > 0)

\* remove_item, on the cart: dict.pop(item, None)
remove_item(c, item) == SelectSeq(c, LAMBDA l : l.name # item)

RECURSIVE compute_subtotal(_)
compute_subtotal(c) ==
    IF c = <<>> THEN 0
    ELSE Head(c).price * Head(c).qty + compute_subtotal(Tail(c))

(***************************************************************************)
(* Coupon Resolver.  calc_discount returns (discount, error_message);      *)
(* subtotal is in rupees, the discount in fixed-point units.               *)
(***************************************************************************)
\* calc_discount without the clamp of line 164
calc_discount_unclamped(subtotal, coupon_code) ==
    LET code == upper(strip(coupon_code)) IN
    IF code = <<>> THEN [discount |-> 0, err |-> Some("Enter a coupon code.")]
    ELSE IF code \notin DOMAIN COUPONS
    THEN [discount |-> 0, err |-> Some("Invalid coupon code.")]
    ELSE LET rule == COUPONS[code]
             discount == IF rule.type = "percent"
                         THEN (Float(subtotal) * rule.value) \div 100
                         ELSE Float(rule.value)
         IN [discount |-> discount, err |-> None]

calc_discount(subtotal, coupon_code) ==
    LET code == upper(strip(coupon_code)) IN
    IF code = <<>> THEN [discount |-> 0, err |-> Some("Enter a coupon code.")]
    ELSE IF code \notin DOMAIN COUPONS
    THEN [discount |-> 0, err |-> Some("Invalid coupon code.")]
    ELSE LET rule == COUPONS[code]
             discount == IF rule.type = "percent"
                         THEN (Float(subtotal) * rule.value) \div 100
                         ELSE Float(rule.value)
         IN [discount |-> Max(0, Min(discount, Float(subtotal))), err |-> None]

(***************************************************************************)
(* Pricing: the Bill Summary block (and generate_pdf_bill's copy of it).   *)
(***************************************************************************)
\* the Bill Summary trusting the stored discount (no min with the subtotal)
BillSummary_stored(c, stored) ==
    LET subtotal == compute_subtotal(c)
        discount == stored
        after_discount == Max(0, Float(subtotal) - discount)
        gst == (after_discount * GST_RATE) \div 100
    IN [subtotal |-> subtotal, discount |-> discount,
        after_discount |-> after_discount, gst |-> gst,
        total |-> after_discount + gst]

BillSummary(c, stored) ==
    LET subtotal == compute_subtotal(c)
        discount == Min(stored, Float(subtotal))
        after_discount == Max(0, Float(subtotal) - discount)
        gst == (after_discount * GST_RATE) \div 100
    IN [subtotal |-> subtotal, discount |-> discount,
        after_discount |-> after_discount, gst |-> gst,
        total |-> after_discount + gst]

generate_pdf_bill(c, stored) == BillSummary(c, stored)

(***************************************************************************)
(* Bill record.                                                            *)
(***************************************************************************)
\* f"BRV{datetime.now().strftime('%Y%m%d%H%M%S')}": the clock cut to seconds
BillNumber(t) == t \div TicksPerSecond

bill_data(c, coupon, stored, name, method, number, t) ==
    [bill_number |-> number,
     timestamp |-> t,
     customer_name |-> name,
     items |-> [k \in 1..Len(c) |->
                  [name |-> c[k].name, quantity |-> c[k].qty,
                   price |-> c[k].price, amount |-> c[k].qty * c[k].price]],
     subtotal |-> compute_subtotal(c),
     coupon |-> coupon,
     discount |-> stored,
     gst |-> ((Float(compute_subtotal(c)) - stored) * GST_RATE) \div 100,
     total |-> ((Float(compute_subtotal(c)) - stored) * (100 + GST_RATE)) \div 100,
     payment_method |-> method]

\* save_bill_json: open(filename, "w") replaces the file of this bill number
save_bill_json(files, c, coupon, stored, name, method, number, t) ==
    (number :> bill_data(c, coupon, stored, name, method, number, t)) @@ files

(***************************************************************************)
(* One run of the script to its end with no button firing, from the        *)
(* session values c .. files: the Cart & Checkout column is rendered only  *)
(* for a non-empty cart (line 527); the payment radio (lines 626-635) only *)
(* while no bill is generated; the record is written on every run that     *)
(* finds bill_generated set (lines 656-665).                               *)
(*                                                                         *)
(* The radio is a keyed widget: its value lives in the session as long as  *)
(* it is rendered, and a radio that was not rendered comes back at its     *)
(* default, index 0.                                                       *)
(***************************************************************************)
RadioShown(c, bg) == c # <<>> /\ ~bg

RadioValue(c, bg, pr) ==
    IF RadioShown(c, bg)
    THEN (IF pr = None THEN Some(PAYMENT_METHODS[1]) ELSE pr)
    ELSE None

ScriptRun(c, bg, ac, da, pm, pr, cn, bn, files) ==
    /\ cart' = c
    /\ bill_generated' = bg
    /\ applied_coupon' = ac
    /\ discount_amount' = da
    /\ customer_name' = cn
    /\ bill_number' = bn
    /\ payment_radio' = RadioValue(c, bg, pr)
    /\ payment_method' = IF RadioShown(c, bg) THEN RadioValue(c, bg, pr) ELSE pm
    /\ bills' = IF c # <<>> /\ bg
                THEN save_bill_json(files, c, ac, da, cn, pm, bn, now)
                ELSE files
    /\ now' = now

\* clear_cart: the session values it assigns, at clock t
clear_cart(t) ==
    [cart |-> <<>>, bill_generated |-> FALSE, applied_coupon |-> None,
     discount_amount |-> 0, payment_method |-> None,
     bill_number |-> BillNumber(t)]

(***************************************************************************)
(* The user's interactions.                                                *)
(***************************************************************************)
\* "Add" next to a menu item, with the quantity input at qty
add_clicked(item, qty) ==
    ScriptRun(add_to_cart(cart, item, MENU[item], qty), FALSE, applied_coupon,
              discount_amount, payment_method, payment_radio, customer_name,
              bill_number, bills)

\* the bin button of a cart line, without the reset of line 128
remove_clicked_keeps_flag(item) ==
    /\ InCart(cart, item)
    /\ ScriptRun(remove_item(cart, item), bill_generated, applied_coupon,
                 discount_amount, payment_method, payment_radio, customer_name,
                 bill_number, bills)

\* the bin button of a cart line
remove_clicked(item) ==
    /\ InCart(cart, item)
    /\ ScriptRun(remove_item(cart, item), FALSE, applied_coupon,
                 discount_amount, payment_method, payment_radio, customer_name,
                 bill_number, bills)

\* the customer name box
name_edited(n) ==
    /\ cart # <<>>
    /\ n # customer_name
    /\ ScriptRun(cart, bill_generated, applied_coupon, discount_amount,
                 payment_method, payment_radio, n, bill_number, bills)

\* "Apply" storing the code as typed, not stripped and upper-cased
apply_clicked_as_typed(coupon_input) ==
    /\ cart # <<>>
    /\ LET subtotal_now == compute_subtotal(cart)
           r == calc_discount(subtotal_now, coupon_input)
       IN IF r.err # None
          THEN ScriptRun(cart, bill_generated, None, 0, payment_method,
                         payment_radio, customer_name, bill_number, bills)
          ELSE ScriptRun(cart, bill_generated, Some(coupon_input), r.discount,
                         payment_method, payment_radio, customer_name,
                         bill_number, bills)

\* "Apply" with coupon_input in the coupon box
apply_clicked(coupon_input) ==
    /\ cart # <<>>
    /\ LET subtotal_now == compute_subtotal(cart)
           r == calc_discount(subtotal_now, coupon_input)
       IN IF r.err # None
          THEN ScriptRun(cart, bill_generated, None, 0, payment_method,
                         payment_radio, customer_name, bill_number, bills)
          ELSE ScriptRun(cart, bill_generated,
                         Some(upper(strip(coupon_input))), r.discount,
                         payment_method, payment_radio, customer_name,
                         bill_number, bills)

\* "Remove Coupon"
remove_coupon_clicked ==
    /\ cart # <<>>
    /\ applied_coupon # None
    /\ ScriptRun(cart, bill_generated, None, 0, payment_method, payment_radio,
                 customer_name, bill_number, bills)

\* a choice in the payment radio
payment_selected(m) ==
    /\ RadioShown(cart, bill_generated)
    /\ Some(m) # payment_radio
    /\ ScriptRun(cart, bill_generated, applied_coupon, discount_amount,
                 payment_method, Some(m), customer_name, bill_number, bills)

\* "Clear Cart"
clear_cart_clicked ==
    /\ cart # <<>>
    /\ LET s == clear_cart(now)
       IN ScriptRun(s.cart, s.bill_generated, s.applied_coupon,
                    s.discount_amount, s.payment_method, payment_radio,
                    customer_name, s.bill_number, bills)

\* the Generate Bill handler setting the flag without looking at the payment
generate_bill_unchecked(pm, bg) == TRUE

\* the Generate Bill handler (lines 649-653): bill_generated after a click
\* that finds payment method pm and flag bg
generate_bill(pm, bg) == IF pm # None THEN TRUE ELSE bg

\* "Generate Bill": the radio's value is stored (line 635) before the test
generate_bill_clicked ==
    /\ cart # <<>>
    /\ ~bill_generated
    /\ LET pm == RadioValue(cart, bill_generated, payment_radio)
       IN ScriptRun(cart, generate_bill(pm, bill_generated), applied_coupon,
                    discount_amount, pm, payment_radio, customer_name,
                    bill_number, bills)

\* "New Order": the run that sees the click has written the record (line
\* 665) before it reaches the button (line 698)
new_order_clicked ==
    /\ cart # <<>>
    /\ bill_generated
    /\ LET s == clear_cart(now)
           files == save_bill_json(bills, cart, applied_coupon,
                                   discount_amount, customer_name,
                                   payment_method, bill_number, now)
       IN ScriptRun(s.cart, s.bill_generated, s.applied_coupon,
                    s.discount_amount, s.payment_method, payment_radio,
                    customer_name, s.bill_number, files)

\* any other widget (category select, a download button): a plain re-run
rerun ==
    ScriptRun(cart, bill_generated, applied_coupon, discount_amount,
              payment_method, payment_radio, customer_name, bill_number, bills)

\* the wall clock advances
Tick ==
    /\ now < MaxClock
    /\ now' = now + 1
    /\ UNCHANGED <<cart, bill_generated, applied_coupon, discount_amount,
                   payment_method, customer_name, bill_number, payment_radio,
                   bills>>

(***************************************************************************)
(* init_session_state, and the first run of the script (empty cart).       *)
(***************************************************************************)
Init ==
    /\ cart = <<>>
    /\ bill_generated = FALSE
    /\ applied_coupon = None
    /\ discount_amount = 0
    /\ payment_method = None
    /\ customer_name = ""
    /\ now = 0
    /\ bill_number = BillNumber(0)
    /\ payment_radio = None
    /\ bills = <<>>
    /\ events = 0

QtyInputs == 1..MaxQtyInput
CustomerNames == {"", "Asha"}
Methods == {PAYMENT_METHODS[k] : k \in 1..Len(PAYMENT_METHODS)}

\* The exploration counts its events, or leaves the count alone.
Counted == events < MaxEvents /\ events' = events + 1
Uncounted == events' = events

\* The whole application, MaxEvents events deep.
Next ==
    \/ \E item \in DOMAIN MENU, qty \in QtyInputs :
         Counted /\ QtyOf(cart, item) + qty <= MaxLineQty /\ add_clicked(item, qty)
    \/ \E item \in DOMAIN MENU : Counted /\ remove_clicked(item)
    \/ \E n \in CustomerNames : Counted /\ name_edited(n)
    \/ \E text \in CouponInputs : Counted /\ apply_clicked(text)
    \/ Counted /\ remove_coupon_clicked
    \/ \E m \in Methods : Counted /\ payment_selected(m)
    \/ Counted /\ clear_cart_clicked
    \/ Counted /\ generate_bill_clicked
    \/ Counted /\ new_order_clicked
    \/ Counted /\ rerun
    \/ Counted /\ Tick

Spec == Init /\ [][Next]_vars

\* Cart, coupon and clear only (no bill is generated), to any depth.
NextCart ==
    \/ \E item \in DOMAIN MENU, qty \in QtyInputs :
         Uncounted /\ QtyOf(cart, item) + qty <= MaxLineQty /\ add_clicked(item, qty)
    \/ \E item \in DOMAIN MENU : Uncounted /\ remove_clicked(item)
    \/ \E text \in CouponInputs : Uncounted /\ apply_clicked(text)
    \/ Uncounted /\ remove_coupon_clicked
    \/ Uncounted /\ clear_cart_clicked
    \/ Uncounted /\ Tick

SpecCart == Init /\ [][NextCart]_vars

\* The cart alone, with every quantity the quantity input offers.
NextQty ==
    \/ \E item \in DOMAIN MENU, qty \in 1..MAX_QTY :
         Uncounted /\ QtyOf(cart, item) + qty <= WideLineQty /\ add_clicked(item, qty)
    \/ \E item \in DOMAIN MENU : Uncounted /\ remove_clicked(item)
    \/ Uncounted /\ clear_cart_clicked

SpecQty == Init /\ [][NextQty]_vars

\* The coupon box over small carts: add, remove, apply and remove coupon.
NextCoupon ==
    \/ \E item \in DOMAIN MENU, qty \in QtyInputs :
         Uncounted /\ QtyOf(cart, item) + qty <= MaxQtyInput /\ add_clicked(item, qty)
    \/ \E item \in DOMAIN MENU : Uncounted /\ remove_clicked(item)
    \/ \E text \in CouponInputs : Uncounted /\ apply_clicked(text)
    \/ Uncounted /\ remove_coupon_clicked

SpecCoupon == Init /\ [][NextCoupon]_vars

(***************************************************************************)
(* Properties.                                                             *)
(***************************************************************************)
Subtotal == compute_subtotal(cart)
Summary == BillSummary(cart, discount_amount)

\* C1: every saved bill record carries the Pricing Engine's amounts for its
\* cart and stored discount: discount <= subtotal, gst = max(0, subtotal -
\* min(discount, subtotal)) * 18%, total = taxable + gst, neither negative,
\* so the record and the printable bill show the same discount, gst, total.
C1_RecordMatchesPricing ==
    \A b \in DOMAIN bills :
        LET r == bills[b]
            S == Float(r.subtotal)
            eff == IF r.discount <= S THEN r.discount ELSE S
            taxable == IF S - eff >= 0 THEN S - eff ELSE 0
        IN /\ r.discount <= S
           /\ r.gst * 100 = taxable * 18
           /\ r.total = taxable + r.gst
           /\ r.gst >= 0
           /\ r.total >= 0

\* C2: in every reachable state the live totals are effective_discount =
\* min(stored discount, subtotal), taxable = max(0, subtotal - effective),
\* tax = 18% of taxable, total = taxable + tax, with 0 <= effective <=
\* subtotal and total >= 0; stored discount 100 at subtotal 50 gives 50, and
\* subtotal 1000 without discount gives tax 180 and total 1180.
C2_LiveTotals ==
    LET S == Float(Subtotal)
        eff == IF discount_amount <= S THEN discount_amount ELSE S
        taxable == IF S - eff >= 0 THEN S - eff ELSE 0
    IN /\ Summary.subtotal = Subtotal
       /\ Summary.discount = eff
       /\ Summary.after_discount = taxable
       /\ Summary.gst * 100 = taxable * 18
       /\ Summary.total = taxable + Summary.gst
       /\ 0 <= Summary.discount /\ Summary.discount <= S
       /\ Summary.total >= 0
       /\ (Subtotal = 50 /\ discount_amount = Float(100)
             => Summary.discount = Float(50))
       /\ (Subtotal = 1000 /\ discount_amount = 0
             => Summary.gst = Float(180) /\ Summary.total = Float(1180))

\* C2 witness: a 100 coupon is stored and the cart has shrunk to subtotal 50.
C2_Witness ==
    /\ applied_coupon = Some(BRAVO100)
    /\ discount_amount = Float(100)
    /\ Subtotal = 50
    /\ Summary.discount = Float(50)

\* the fields of a record other than its timestamp
BillFields(r) ==
    <<r.bill_number, r.customer_name, r.items, r.subtotal, r.coupon,
      r.discount, r.gst, r.total, r.payment_method>>

\* C3: once a record is written for a bill number, no later step writes a
\* record with different items, amounts, coupon, customer name or payment
\* method under that bill number.
C3_RecordImmutable ==
    [][\A b \in DOMAIN bills :
          b \in DOMAIN bills' /\ BillFields(bills'[b]) = BillFields(bills[b])]_vars

\* C4: Generate Bill succeeds at most once per bill number: whenever
\* bill_generated turns true, no record has been written yet under the
\* current bill number.
C4_FinalizeOncePerNumber ==
    [][(~bill_generated /\ bill_generated') => bill_number' \notin DOMAIN bills]_vars

\* C5: for the subtotal S of every reachable cart and every code typed, the
\* discount of calc_discount lies in [0, S]; a flat coupon of value V gives
\* S when V > S and V when V <= S; a percentage coupon gives S * value / 100.
C5_DiscountClamped ==
    /\ \A text \in CouponInputs :
          LET d == calc_discount(Subtotal, text).discount
          IN 0 <= d /\ d <= Float(Subtotal)
    /\ \A code \in DOMAIN COUPONS :
          LET d == calc_discount(Subtotal, code).discount
              V == COUPONS[code].value
          IN IF COUPONS[code].type = "flat"
             THEN /\ V > Subtotal => d = Float(Subtotal)
                  /\ V <= Subtotal => d = Float(V)
             ELSE d * 100 = Float(Subtotal) * V

\* C5 witness: a flat 100 coupon was applied to a cart worth less than 100
\* and the stored discount is the subtotal.
C5_Witness ==
    /\ cart # <<>>
    /\ Subtotal < 100
    /\ applied_coupon = Some(BRAVO100)
    /\ discount_amount = Float(Subtotal)

\* C6: while a coupon is applied, the discount in effect equals
\* calc_discount(applied code, current subtotal).
C6_DiscountFollowsSubtotal ==
    applied_coupon # None =>
        Summary.discount = calc_discount(Subtotal, The(applied_coupon)).discount

\* the cart after adding qty of item and then removing item
AddThenRemove(item, qty) ==
    remove_item(add_to_cart(cart, item, MENU[item], qty), item)

\* C7 as stated: for every cart and item, add then remove of the item
\* restores the subtotal, also when the item was already in the cart.
C7_AddRemoveRestoresAlways ==
    \A item \in DOMAIN MENU, qty \in 1..MAX_QTY :
        compute_subtotal(AddThenRemove(item, qty)) = Subtotal

\* C7 amended: add then remove restores the subtotal (and the cart) when the
\* item was not in the cart; when it was, the whole line goes, and the
\* subtotal ends lower than before the add by that line's earlier amount.
C7_AddRemoveRestoresIfAbsent ==
    \A item \in DOMAIN MENU, qty \in 1..MAX_QTY :
        IF InCart(cart, item)
        THEN compute_subtotal(AddThenRemove(item, qty))
                = Subtotal - MENU[item] * QtyOf(cart, item)
        ELSE /\ compute_subtotal(AddThenRemove(item, qty)) = Subtotal
             /\ AddThenRemove(item, qty) = cart

\* C7 witness: a cart with one item of the menu in it and the other absent.
C7_Witness ==
    /\ InCart(cart, "Veg Fried Rice")
    /\ ~InCart(cart, "Tea")
    /\ Subtotal > 0

\* C8: an add of an item already in the cart raises that line's quantity by
\* exactly the added qty, keeps its unit price and leaves the other lines
\* alone; an add of an absent item appends one line with the given price and
\* qty.
C8_AddIsAdditive ==
    [][\A item \in DOMAIN MENU, qty \in QtyInputs :
          add_clicked(item, qty) =>
              IF InCart(cart, item)
              THEN /\ Len(cart') = Len(cart)
                   /\ \A k \in 1..Len(cart) :
                         /\ cart'[k].name = cart[k].name
                         /\ cart'[k].price = cart[k].price
                         /\ cart'[k].qty =
                              cart[k].qty + (IF cart[k].name = item THEN qty ELSE 0)
              ELSE /\ Len(cart') = Len(cart) + 1
                   /\ \A k \in 1..Len(cart) : cart'[k] = cart[k]
                   /\ cart'[Len(cart')].name = item
                   /\ cart'[Len(cart')].price = MENU[item]
                   /\ cart'[Len(cart')].qty = qty]_vars

\* C8 witness: one line of quantity 5 (2 and 3 added) next to another line.
C8_Witness ==
    /\ Len(cart) = 2
    /\ QtyOf(cart, "Tea") = 5
    /\ LineOf(cart, "Tea").price = MENU["Tea"]

\* C9: every line of the cart has an integer quantity from 1 to 20.
C9_QtyInRange ==
    \A k \in 1..Len(cart) : cart[k].qty \in 1..MAX_QTY

\* C10: Clear Cart and New Order leave the cart empty, no coupon, discount
\* 0, no payment method, no bill generated, and a bill number different
\* from the one held before.
C10_ClearResets ==
    [][(clear_cart_clicked \/ new_order_clicked) =>
          /\ cart' = <<>>
          /\ applied_coupon' = None
          /\ discount_amount' = 0
          /\ payment_method' = None
          /\ bill_generated' = FALSE
          /\ bill_number' # bill_number]_vars

\* C11: Generate Bill is refused on an empty cart (no step from an empty
\* cart sets bill_generated, writes a record or changes coupon or bill
\* number) and without a payment method (the handler leaves the flag
\* false); a click on a non-empty cart with a payment method of the fixed
\* set sets bill_generated and leaves the cart as it was, and a click that
\* does not set the flag writes nothing and changes nothing.
C11_FinalizeGuarded ==
    [][/\ generate_bill(None, FALSE) = FALSE
       /\ cart = <<>> =>
            /\ bill_generated' = FALSE
            /\ bills' = bills
            /\ applied_coupon' = applied_coupon
            /\ bill_number' = bill_number
       /\ generate_bill_clicked =>
            /\ cart # <<>>
            /\ cart' = cart
            /\ bill_generated' = (payment_method' \in {Some(m) : m \in Methods})
            /\ ~bill_generated' =>
                 /\ bills' = bills
                 /\ applied_coupon' = applied_coupon
                 /\ bill_number' = bill_number]_vars

\* C11 witness: a bill generated on a non-empty cart, paid by UPI, recorded.
C11_Witness ==
    /\ bill_generated
    /\ cart # <<>>
    /\ payment_method = Some("UPI")
    /\ bill_number \in DOMAIN bills
    /\ bills[bill_number].payment_method = Some("UPI")

\* what the claim expects of each text typed: no code, no such code, or the
\* registry code it spells apart from letter case and outer blanks
MissingCodes == { <<>>, <<" ", " ">> }
InvalidCodes == { <<"B", "R", "A", "V", "O", "1">>,
                  <<"B", "R", "A", "V", "O", " ", "1", "0">> }
Spells(text) ==
    IF text \in {BRAVO10, <<" ", "b", "r", "a", "v", "o", "1", "0", " ">>}
    THEN BRAVO10
    ELSE IF text \in {WELCOME50, <<"w", "e", "l", "c", "o", "m", "e", "5", "0">>}
    THEN WELCOME50
    ELSE BRAVO100

\* C12: Apply with an empty or blank code, or with a code that is not in the
\* registry after trimming and upper-casing, gives discount 0, no coupon and
\* the error for a missing resp. invalid code, and leaves the cart alone; a
\* code that differs from a registry code in letter case or outer blanks
\* only is accepted and stored in its upper-case form.  After any Apply,
\* applied_coupon is None with discount 0, or a registry code.
C12_ApplyValidates ==
    [][\A text \in CouponInputs :
          apply_clicked(text) =>
              /\ cart' = cart
              /\ \/ applied_coupon' = None /\ discount_amount' = 0
                 \/ \E code \in DOMAIN COUPONS : applied_coupon' = Some(code)
              /\ text \in MissingCodes =>
                    /\ applied_coupon' = None /\ discount_amount' = 0
                    /\ calc_discount(Subtotal, text).err
                          = Some("Enter a coupon code.")
              /\ text \in InvalidCodes =>
                    /\ applied_coupon' = None /\ discount_amount' = 0
                    /\ calc_discount(Subtotal, text).err
                          = Some("Invalid coupon code.")
              /\ text \notin MissingCodes \cup InvalidCodes =>
                    /\ applied_coupon' = Some(Spells(text))
                    /\ calc_discount(Subtotal, text).err = None]_vars

\* C12 witness: a coupon is stored in its registry form and discounts a
\* non-empty cart.
C12_Witness ==
    /\ cart # <<>>
    /\ applied_coupon = Some(WELCOME50)
    /\ discount_amount > 0

\* a generated bill has a non-empty cart and one of the four payment methods
GeneratedBillComplete ==
    bill_generated =>
        /\ cart # <<>>
        /\ \E m \in Methods : payment_method = Some(m)

\* C13: bill_generated implies a non-empty cart and a payment method of the
\* fixed four, in every state; every step that changes the cart leaves
\* bill_generated false; and the flag turns true only by Generate Bill on a
\* non-empty cart with a payment method selected.
C13_GeneratedImpliesComplete ==
    [][/\ GeneratedBillComplete
       /\ GeneratedBillComplete'
       /\ cart' # cart => ~bill_generated'
       /\ (~bill_generated /\ bill_generated') =>
            /\ generate_bill_clicked
            /\ cart # <<>>
            /\ \E m \in Methods : payment_method' = Some(m)]_vars

\* C13 witness: a bill generated for a two-line cart paid by Net Banking.
C13_Witness ==
    /\ bill_generated
    /\ Len(cart) = 2
    /\ payment_method = Some("Net Banking")

====
